---- MODULE Spec2Model ----
(***************************************************************************)
(* Model of the card-table server (src/v0.01/server.js): the in-memory     *)
(* game store, the four API handlers (create, join, start, state), the     *)
(* deal and the per-player projection.                                     *)
(*                                                                         *)
(* Strings are sequences of one-character strings, so that trim,           *)
(* toUpperCase, the card encoding and splitCard are computed as the code   *)
(* computes them.  Player ids (randomUUID) are fresh naturals; the id 0    *)
(* stands for a request that carries no player id (undefined).             *)
(***************************************************************************)
EXTENDS Integers, Sequences, FiniteSets, TLC

VARIABLES
  games,    \* the store: const games = new Map(), code -> game object
  nextId,   \* the next id randomUUID returns
  pending,  \* per POST route, the handlers suspended in await readBody(req)
  last,     \* the last response sent with sendJson
  probe,    \* a pure function under test: its input and what it returned
  gen,      \* the call stack of generateCode while createGame runs
  client,   \* the page of one browser: state (session, pollId, lastGame)
            \* and the disabled attribute of the start button
  calls     \* the fetches of that page that have not yet returned

\* the variables the handlers of the server do not touch
aux == <<probe, gen, client, calls>>

vars == <<games, nextId, pending, last, probe, gen, client, calls>>

(***************************************************************************)
(* Bounds of the model.                                                    *)
(***************************************************************************)
\* ids the random id source hands out before the model stops adding players
MaxIds == 5
\* handlers that may be suspended in readBody at the same time
MaxPending == 2
\* resolution of the random stream: Math.random() is x / RandMod
RandMod == 64

(***************************************************************************)
(* String helpers (JavaScript String.prototype.trim / toUpperCase).        *)
(***************************************************************************)
LowerChars ==
  <<"a","b","c","d","e","f","g","h","i","j","k","l","m",
    "n","o","p","q","r","s","t","u","v","w","x","y","z">>

UpperChars ==
  <<"A","B","C","D","E","F","G","H","I","J","K","L","M",
    "N","O","P","Q","R","S","T","U","V","W","X","Y","Z">>

IsSpace(c) == c \in {" ", "\t", "\n"}

RECURSIVE TrimLeft(_)
TrimLeft(s) ==
  IF s = <<>> THEN <<>>
  ELSE IF IsSpace(Head(s)) THEN TrimLeft(Tail(s)) ELSE s

RECURSIVE TrimRight(_)
TrimRight(s) ==
  IF s = <<>> THEN <<>>
  ELSE IF IsSpace(s[Len(s)]) THEN TrimRight(SubSeq(s, 1, Len(s) - 1)) ELSE s

Trim(s) == TrimRight(TrimLeft(s))

\* the upper-case form of every lower-case letter
upperOf ==
  [c \in { LowerChars[i] : i \in 1..Len(LowerChars) } |->
     UpperChars[CHOOSE i \in 1..Len(LowerChars) : LowerChars[i] = c]]

UpperChar(c) == IF c \in DOMAIN upperOf THEN upperOf[c] ELSE c

ToUpperCase(s) == [i \in 1..Len(s) |-> UpperChar(s[i])]

\* Array.prototype.slice(start, end) with 0-based, end-exclusive indices
Slice(array, start, end) ==
  SubSeq(array, start + 1, IF end < Len(array) THEN end ELSE Len(array))

(***************************************************************************)
(* Deck: buildDeck and shuffle.                                            *)
(***************************************************************************)
suits == <<"S", "H", "D", "C">>

ranks ==
  << <<"A">>, <<"K">>, <<"Q">>, <<"J">>, <<"1","0">>, <<"9">>, <<"8">>,
     <<"7">>, <<"6">>, <<"5">>, <<"4">>, <<"3">>, <<"2">> >>

\* cards per hand: deck.slice(idx * 13, idx * 13 + 13)
HandSize == 13

\* `${rank}${suit}`
EncodeCard(rank, suit) == rank \o <<suit>>

\* for (suit of suits) for (rank of ranks) deck.push(`${rank}${suit}`)
buildDeck ==
  [k \in 1..(Len(suits) * Len(ranks)) |->
     EncodeCard(ranks[((k - 1) % Len(ranks)) + 1],
                suits[((k - 1) \div Len(ranks)) + 1])]

\* Math.random(): the stream of values x / RandMod of [0, 1) that follows the
\* value x (a linear congruential stream; its seed is the nondeterminism).
NextRandom(x) == (x * 5 + 3) % RandMod

\* Swap with the second write lost: array[i] = array[j] only
Swap_LostWrite(array, i, j) == [array EXCEPT ![i] = array[j]]

\* [array[i], array[j]] = [array[j], array[i]]  (1-based indices here)
Swap(array, i, j) == [array EXCEPT ![i] = array[j], ![j] = array[i]]

\* The loop of shuffle from the 0-based index i down to 1, x the next draw:
\* j = Math.floor(Math.random() * (i + 1)); swap array[i], array[j]
RECURSIVE ShuffleFrom(_, _, _)
ShuffleFrom(array, i, x) ==
  IF i > 0
  THEN LET j == (x * (i + 1)) \div RandMod
       IN  ShuffleFrom(Swap(array, i + 1, j + 1), i - 1, NextRandom(x))
  ELSE array

\* for (let i = array.length - 1; i > 0; i -= 1) ...
shuffle(array, seed) == ShuffleFrom(array, Len(array) - 1, seed % RandMod)

\* the seeds of the random stream a shuffle may start from, in the model
Seeds == {0, 1}

\* const deck = buildDeck(); shuffle(deck): the deck a deal works with, for
\* each seed (tabulated, so that a shuffle is computed once per seed)
shuffledDeck == [seed \in Seeds |-> shuffle(buildDeck, seed)]

(***************************************************************************)
(* The store and the session lifecycle.                                    *)
(***************************************************************************)
\* generateCode: 5 characters of chars, each chars.charAt(floor(random * 32))
chars ==
  <<"A","B","C","D","E","F","G","H","J","K","L","M","N","P","Q","R",
    "S","T","U","V","W","X","Y","Z","2","3","4","5","6","7","8","9">>

CodeLen == 5

\* The index sequences floor(random * chars.length) the random source draws
\* for the characters of a code, in the model.
CodeDraws == { <<0, 0, 0, 0, 0>>, <<0, 0, 0, 0, 1>> }

\* code += chars.charAt(index), for each of the CodeLen draws
CodeOf(draws) == [i \in 1..CodeLen |-> chars[draws[i] + 1]]

\* the codes generateCode can return
GenCodes == { CodeOf(d) : d \in CodeDraws }

\* position of a player whose seat search found nothing (undefined)
NoSeat == -1

\* [0, 1, 2, 3]
seatOrder == <<0, 1, 2, 3>>

\* existingPositions = game.players.map(p => p.position)
existingPositions(game) ==
  { game.players[i].position : i \in 1..Len(game.players) }

\* available with the negation dropped: the first seat that is taken
available_Taken(game) ==
  IF \E k \in 1..Len(seatOrder) : seatOrder[k] \in existingPositions(game)
  THEN seatOrder[CHOOSE k \in 1..Len(seatOrder) :
         /\ seatOrder[k] \in existingPositions(game)
         /\ \A m \in 1..(k - 1) : seatOrder[m] \notin existingPositions(game)]
  ELSE NoSeat

\* available searching from the last seat: the highest free seat
available_Highest(game) ==
  IF \E k \in 1..Len(seatOrder) : seatOrder[k] \notin existingPositions(game)
  THEN seatOrder[CHOOSE k \in 1..Len(seatOrder) :
         /\ seatOrder[k] \notin existingPositions(game)
         /\ \A m \in (k + 1)..Len(seatOrder) : seatOrder[m] \in existingPositions(game)]
  ELSE NoSeat

\* [0, 1, 2, 3].find(pos => !existingPositions.includes(pos))
available(game) ==
  IF \E k \in 1..Len(seatOrder) : seatOrder[k] \notin existingPositions(game)
  THEN seatOrder[CHOOSE k \in 1..Len(seatOrder) :
         /\ seatOrder[k] \notin existingPositions(game)
         /\ \A m \in 1..(k - 1) : seatOrder[m] \in existingPositions(game)]
  ELSE NoSeat

\* createGame(name), with the code generateCode returned and the id
\* randomUUID returned (createdAt is never read and is left out)
createGame(gameId, name, id) ==
  [id      |-> gameId,
   hostId  |-> id,
   status  |-> "lobby",
   players |-> << [id |-> id, name |-> name, position |-> 0] >>,
   hands   |-> << >>]

\* joinGame that also hands the session to the newcomer
joinGame_TakesHost(game, name, id) ==
  [game EXCEPT
     !.players = Append(game.players,
                        [id |-> id, name |-> name, position |-> available(game)]),
     !.hostId  = id]

\* joinGame(game, name), with the id randomUUID returned: the game afterwards
joinGame(game, name, id) ==
  [game EXCEPT !.players =
     Append(game.players, [id |-> id, name |-> name, position |-> available(game)])]

\* players.slice().sort((a, b) => a.position - b.position): a stable sort
RECURSIVE InsertByPosition(_, _)
InsertByPosition(sorted, p) ==
  IF sorted = <<>> THEN <<p>>
  ELSE IF sorted[Len(sorted)].position - p.position > 0
       THEN Append(InsertByPosition(SubSeq(sorted, 1, Len(sorted) - 1), p),
                   sorted[Len(sorted)])
       ELSE Append(sorted, p)

RECURSIVE SortByPosition(_)
SortByPosition(players) ==
  IF players = <<>> THEN <<>>
  ELSE InsertByPosition(SortByPosition(SubSeq(players, 1, Len(players) - 1)),
                        players[Len(players)])

\* HandSlice one card short: deck.slice(idx * 13, idx * 13 + 12)
HandSlice_Short(deck, idx) ==
  Slice(deck, idx * HandSize, idx * HandSize + HandSize - 1)

\* the slice of the deck the player at index idx (0-based) of the sorted
\* players receives: deck.slice(idx * 13, idx * 13 + 13)
HandSlice(deck, idx) == Slice(deck, idx * HandSize, idx * HandSize + HandSize)

\* deal(game), the shuffle consuming the random stream of `seed`
deal(game, seed) ==
  LET deck   == shuffledDeck[seed]
      sorted == SortByPosition(game.players)
      ids    == { sorted[k].id : k \in 1..Len(sorted) }
      \* forEach assigns in order: the last assignment to an id stays
      lastIdx(pid) == CHOOSE k \in 1..Len(sorted) :
                         /\ sorted[k].id = pid
                         /\ \A m \in (k + 1)..Len(sorted) : sorted[m].id # pid
  IN  [game EXCEPT
         !.hands  = [pid \in ids |-> HandSlice(deck, lastIdx(pid) - 1)],
         !.status = "started"]

(***************************************************************************)
(* The view projector.                                                     *)
(***************************************************************************)
\* suitOrder with the suits in alphabetical order
suitOrder_Alphabetical(suit) ==
  CASE suit = "C" -> 0 [] suit = "D" -> 1 [] suit = "H" -> 2 [] suit = "S" -> 3

\* const suitOrder = { S: 0, H: 1, D: 2, C: 3 }
suitOrder(suit) ==
  CASE suit = "S" -> 0 [] suit = "H" -> 1 [] suit = "D" -> 2 [] suit = "C" -> 3

rankOrder ==
  << <<"A">>, <<"K">>, <<"Q">>, <<"J">>, <<"1","0">>, <<"9">>, <<"8">>,
     <<"7">>, <<"6">>, <<"5">>, <<"4">>, <<"3">>, <<"2">> >>

\* rankOrder.indexOf(rank)
rankIndexOf(rank) ==
  IF \E k \in 1..Len(rankOrder) : rankOrder[k] = rank
  THEN (CHOOSE k \in 1..Len(rankOrder) : rankOrder[k] = rank) - 1
  ELSE -1

\* splitCard taking the first character as the rank
splitCard_OneCharRank(card) ==
  << SubSeq(card, 1, 1), card[Len(card)] >>

\* splitCard(card) = [card.slice(0, -1), card.slice(-1)]
splitCard(card) ==
  << SubSeq(card, 1, Len(card) - 1), card[Len(card)] >>

\* cardComparator comparing the rank before the suit
cardComparator_RankFirst(a, b) ==
  LET rankA == splitCard(a)[1]
      suitA == splitCard(a)[2]
      rankB == splitCard(b)[1]
      suitB == splitCard(b)[2]
  IN  IF rankA # rankB
      THEN rankIndexOf(rankA) - rankIndexOf(rankB)
      ELSE suitOrder(suitA) - suitOrder(suitB)

cardComparator(a, b) ==
  LET rankA == splitCard(a)[1]
      suitA == splitCard(a)[2]
      rankB == splitCard(b)[1]
      suitB == splitCard(b)[2]
  IN  IF suitA # suitB
      THEN suitOrder(suitA) - suitOrder(suitB)
      ELSE rankIndexOf(rankA) - rankIndexOf(rankB)

\* [...playerHand].sort(cardComparator): a stable sort of a copy
RECURSIVE InsertCard(_, _)
InsertCard(sorted, c) ==
  IF sorted = <<>> THEN <<c>>
  ELSE IF cardComparator(sorted[Len(sorted)], c) > 0
       THEN Append(InsertCard(SubSeq(sorted, 1, Len(sorted) - 1), c),
                   sorted[Len(sorted)])
       ELSE Append(sorted, c)

RECURSIVE SortHand(_)
SortHand(hand) ==
  IF hand = <<>> THEN <<>>
  ELSE InsertCard(SortHand(SubSeq(hand, 1, Len(hand) - 1)), hand[Len(hand)])

\* game.hands[playerId] || []
HandOf(game, playerId) ==
  IF playerId \in DOMAIN game.hands THEN game.hands[playerId] ELSE <<>>

\* one element of the players array of a view
PlayerView(game, p, playerId) ==
  [id       |-> p.id,
   name     |-> p.name,
   position |-> p.position,
   isHost   |-> (p.id = game.hostId),
   isYou    |-> (p.id = playerId),
   handSize |-> Len(HandOf(game, p.id))]

\* projectGameForPlayer reading the hand of the host instead of the requester
projectGameForPlayer_HostHand(game, playerId) ==
  [gameId  |-> game.id,
   status  |-> game.status,
   hostId  |-> game.hostId,
   players |-> [i \in 1..Len(game.players) |->
                  PlayerView(game, game.players[i], playerId)],
   hand    |-> SortHand(HandOf(game, game.hostId))]

projectGameForPlayer(game, playerId) ==
  [gameId  |-> game.id,
   status  |-> game.status,
   hostId  |-> game.hostId,
   players |-> [i \in 1..Len(game.players) |->
                  PlayerView(game, game.players[i], playerId)],
   hand    |-> SortHand(HandOf(game, playerId))]

(***************************************************************************)
(* The API layer: requests, responses and the handlers.                    *)
(***************************************************************************)
\* seats of a table: the player count start requires and join stops at
MaxPlayers == 4

Ops == {"create", "join", "start"}

\* the lower-case form of every upper-case letter
lowerOf ==
  [c \in { UpperChars[i] : i \in 1..Len(UpperChars) } |->
     LowerChars[CHOOSE i \in 1..Len(UpperChars) : UpperChars[i] = c]]

LowerChar(c) == IF c \in DOMAIN lowerOf THEN lowerOf[c] ELSE c

\* a code as a user may type it: lower case, with a leading blank
TypedVariant(code) == <<" ">> \o [i \in 1..Len(code) |-> LowerChar(code[i])]

\* a code in lower case: it differs from the stored code in letter case only
LowerCased(code) == [i \in 1..Len(code) |-> LowerChar(code[i])]

\* The request inputs the model draws from: every code the generator can
\* produce (unknown to the store until a create draws it) and a typed variant.
\* A name <<>> is an absent or empty field (body.name || '').
GameIdInputs ==
  GenCodes \cup { TypedVariant(CodeOf(<<0, 0, 0, 0, 0>>)) }

\* The codes a start or state request carries: every code the generator can
\* produce and a lower-case variant
LookupInputs ==
  GenCodes \cup { LowerCased(CodeOf(<<0, 0, 0, 0, 0>>)) }

NameInputs == { <<>>, <<" ", " ">>, <<" ", "A", "n", "n", " ">> }

\* player ids a request may carry: none (0), any id issued so far, and one id
\* that no player has
PlayerIdInputs == 0..nextId

NoOut == [gameId |-> <<>>, playerId |-> 0, position |-> NoSeat]

NoView ==
  [gameId |-> <<>>, status |-> "", hostId |-> 0, players |-> <<>>, hand |-> <<>>]

\* The last response sent (sendJson): the operation it answers, the HTTP
\* status and the payload (error text, created/joined player, or view).
Reply(op, status, error, out, view) ==
  [op |-> op, status |-> status, error |-> error, out |-> out, view |-> view]

Fail(op, status, error) == Reply(op, status, error, NoOut, NoView)

PendingCount == pending["create"] + pending["join"] + pending["start"]

\* games.get(gameId)
HasGame(gameId) == gameId \in DOMAIN games

\* game.status !== 'lobby'
AlreadyStarted(game) == game.status # "lobby"

\* GameFull off by one: game.players.length > 4
GameFull_OffByOne(game) == Len(game.players) > MaxPlayers

\* game.players.length >= 4
GameFull(game) == Len(game.players) >= MaxPlayers

\* NotHost that lets every member through
NotHost_NonMember(game, playerId) ==
  \A i \in 1..Len(game.players) : game.players[i].id # playerId

\* game.hostId !== playerId
NotHost(game, playerId) == game.hostId # playerId

\* PlayerCountInvalid that only rejects too many players
PlayerCountInvalid_TooMany(game) == Len(game.players) > MaxPlayers

\* game.players.length !== 4
PlayerCountInvalid(game) == Len(game.players) # MaxPlayers

\* game.players.some(p => p.id === playerId)
IsMember(game, playerId) ==
  \E i \in 1..Len(game.players) : game.players[i].id = playerId

\* state.session = null
NoSession == [gameId |-> <<>>, playerId |-> 0]

\* the page after initialize() with nothing in localStorage: no session, no
\* timer, no game received, and renderSession has disabled the start button
NoClient ==
  [session |-> NoSession, pollId |-> FALSE, lastGame |-> NoView,
   startDisabled |-> TRUE]

\* createGame is not running
NoGen == [state |-> "idle", name |-> <<>>, depth |-> 0]

\* no function under test
NoProbe == [op |-> "none", input |-> <<>>, output |-> <<>>, done |-> FALSE]

Init ==
  /\ games = << >>
  /\ nextId = 1
  /\ pending = [op \in Ops |-> 0]
  /\ last = Fail("none", 0, "")
  /\ probe = NoProbe
  /\ gen = NoGen
  /\ client = NoClient
  /\ calls = <<>>

\* A POST request arrives; its handler suspends in `await readBody(req)`
\* before it has read anything of the store.
Accept(op) ==
  /\ PendingCount < MaxPending
  /\ pending' = [pending EXCEPT ![op] = @ + 1]
  /\ UNCHANGED <<games, nextId, last>>

\* readBody rejects (malformed JSON, oversized payload): the catch of the
\* server answers 500
HandleBadBody(op) ==
  /\ pending[op] > 0
  /\ pending' = [pending EXCEPT ![op] = @ - 1]
  /\ last' = Fail(op, 500, "Unexpected server error")
  /\ UNCHANGED <<games, nextId>>

\* generateCode without the collision check
CodeTaken_Never(code) == FALSE

\* games.has(code), the collision check of generateCode
CodeTaken(code) == code \in DOMAIN games

\* games.set(gameId, game): adds the entry, or replaces the one of that key
MapSet(store, gameId, game) ==
  [g \in DOMAIN store \cup {gameId} |-> IF g = gameId THEN game ELSE store[g]]

\* POST /api/game/create, from the resumption after readBody to sendJson
HandleCreate(rawName) ==
  /\ pending["create"] > 0
  /\ pending' = [pending EXCEPT !["create"] = @ - 1]
  /\ LET name == Trim(rawName)
     IN  IF name = <<>>
         THEN /\ last' = Fail("create", 400, "Name is required")
              /\ UNCHANGED <<games, nextId>>
         ELSE \/ \* generateCode recurses on every colliding draw; when the
                 \* draws collide until the stack is exhausted (as they must
                 \* once every code is taken) the catch of the server answers 500
                 /\ \E code \in GenCodes : CodeTaken(code)
                 /\ last' = Fail("create", 500, "Unexpected server error")
                 /\ UNCHANGED <<games, nextId>>
              \/ \E code \in { c \in GenCodes : ~CodeTaken(c) } :
                   LET game == createGame(code, name, nextId)
                   IN  /\ nextId <= MaxIds
                       /\ games' = MapSet(games, code, game)
                       /\ nextId' = nextId + 1
                       /\ last' = Reply("create", 200, "",
                                        [gameId   |-> game.id,
                                         playerId |-> game.players[1].id,
                                         position |-> game.players[1].position],
                                        NoView)

\* POST /api/game/join, from the resumption after readBody to sendJson
HandleJoin(rawGameId, rawName) ==
  /\ pending["join"] > 0
  /\ pending' = [pending EXCEPT !["join"] = @ - 1]
  /\ LET gameId == ToUpperCase(Trim(rawGameId))
         name   == Trim(rawName)
     IN  IF ~HasGame(gameId)
         THEN /\ last' = Fail("join", 404, "Game not found")
              /\ UNCHANGED <<games, nextId>>
         ELSE IF AlreadyStarted(games[gameId])
         THEN /\ last' = Fail("join", 400, "Game already started")
              /\ UNCHANGED <<games, nextId>>
         ELSE IF name = <<>>
         THEN /\ last' = Fail("join", 400, "Name is required")
              /\ UNCHANGED <<games, nextId>>
         ELSE IF GameFull(games[gameId])
         THEN /\ last' = Fail("join", 400, "Game is full")
              /\ UNCHANGED <<games, nextId>>
         ELSE LET game   == joinGame(games[gameId], name, nextId)
                  player == game.players[Len(game.players)]
              IN  /\ nextId <= MaxIds
                  /\ games' = [games EXCEPT ![gameId] = game]
                  /\ nextId' = nextId + 1
                  /\ last' = Reply("join", 200, "",
                                   [gameId   |-> game.id,
                                    playerId |-> player.id,
                                    position |-> player.position],
                                   NoView)

\* POST /api/game/start, from the resumption after readBody to sendJson
HandleStart(gameId, playerId) ==
  /\ pending["start"] > 0
  /\ pending' = [pending EXCEPT !["start"] = @ - 1]
  /\ UNCHANGED nextId
  /\ IF ~HasGame(gameId)
     THEN /\ last' = Fail("start", 404, "Game not found")
          /\ UNCHANGED games
     ELSE IF NotHost(games[gameId], playerId)
     THEN /\ last' = Fail("start", 403,
                          "Only the host can start the game")
          /\ UNCHANGED games
     ELSE IF PlayerCountInvalid(games[gameId])
     THEN /\ last' = Fail("start", 400,
                          "Need exactly 4 players to start")
          /\ UNCHANGED games
     ELSE \E seed \in Seeds :
            /\ games' = [games EXCEPT ![gameId] = deal(@, seed)]
            /\ last' = Reply("start", 200, "", NoOut, NoView)

\* The response of GET /api/game/state on the store `store`
stateResponse(store, gameId, playerId) ==
  IF gameId \notin DOMAIN store
  THEN Fail("state", 404, "Game not found")
  ELSE IF ~IsMember(store[gameId], playerId)
  THEN Fail("state", 403, "You are not part of this game")
  ELSE Reply("state", 200, "", NoOut,
             projectGameForPlayer(store[gameId], playerId))

\* the projection sorting game.hands[playerId] itself, not a copy of it
storeAfterState_SortInPlace(store, gameId, playerId) ==
  IF gameId \in DOMAIN store /\ playerId \in DOMAIN store[gameId].hands
  THEN [store EXCEPT ![gameId].hands[playerId] = SortHand(@)]
  ELSE store

\* The store after GET /api/game/state: the handler assigns nothing, and the
\* projection sorts [...playerHand], a copy of the stored hand
storeAfterState(store, gameId, playerId) == store

\* GET /api/game/state: no await, the handler runs to its response
HandleState(gameId, playerId) ==
  /\ last' = stateResponse(games, gameId, playerId)
  /\ games' = storeAfterState(games, gameId, playerId)
  /\ UNCHANGED <<nextId, pending>>

Next ==
  \/ \E op \in Ops : Accept(op) /\ UNCHANGED aux
  \/ \E op \in Ops : HandleBadBody(op) /\ UNCHANGED aux
  \/ \E rawName \in NameInputs : HandleCreate(rawName) /\ UNCHANGED aux
  \/ \E rawGameId \in GameIdInputs, rawName \in NameInputs :
       HandleJoin(rawGameId, rawName) /\ UNCHANGED aux
  \/ \E gameId \in LookupInputs, playerId \in PlayerIdInputs :
       HandleStart(gameId, playerId) /\ UNCHANGED aux
  \/ \E gameId \in LookupInputs, playerId \in PlayerIdInputs :
       HandleState(gameId, playerId) /\ UNCHANGED aux

Spec == Init /\ [][Next]_vars

(***************************************************************************)
(* Properties.                                                             *)
(***************************************************************************)
Range(seq) == { seq[i] : i \in 1..Len(seq) }

PlayerIds(game) == { game.players[i].id : i \in 1..Len(game.players) }

Dealt(game) == game.status # "lobby"

\* the 52 cards of the deck, as rank string followed by suit letter
AllCards ==
  { r \o <<s>> :
      r \in { <<"A">>, <<"K">>, <<"Q">>, <<"J">>, <<"1","0">>, <<"9">>, <<"8">>,
              <<"7">>, <<"6">>, <<"5">>, <<"4">>, <<"3">>, <<"2">> },
      s \in { "S", "H", "D", "C" } }

\* C1: after any successful start the hands of the session partition the
\* deck: exactly 4 hands, one per seated player, each of exactly 13 cards,
\* pairwise disjoint, their union the full 52-card deck.
C1_HandsPartitionDeck ==
  \A g \in DOMAIN games :
    Dealt(games[g]) =>
      LET hands == games[g].hands
          ids   == PlayerIds(games[g])
      IN  /\ Cardinality(AllCards) = 52
          /\ Len(games[g].players) = 4
          /\ DOMAIN hands = ids
          /\ Cardinality(DOMAIN hands) = 4
          /\ \A p \in ids : /\ Len(hands[p]) = 13
                            /\ Cardinality(Range(hands[p])) = 13
          /\ \A p, q \in ids : p # q => Range(hands[p]) \cap Range(hands[q]) = {}
          /\ UNION { Range(hands[p]) : p \in ids } = AllCards

\* a start has just succeeded and the session holds the dealt hands
C1_Witness ==
  /\ last.op = "start"
  /\ last.status = 200
  /\ \E g \in DOMAIN games : Dealt(games[g]) /\ DOMAIN games[g].hands # {}

\* The stores that differ from `store` only in the card contents of the hands
\* of game g that are not playerId's: every other hand reversed, and every
\* other hand replaced by the first cards of the unshuffled deck.
OtherHandsVaried(store, g, playerId) ==
  LET hands == store[g].hands
  IN  { [store EXCEPT ![g].hands =
           [q \in DOMAIN hands |->
              IF q = playerId THEN hands[q]
              ELSE [i \in 1..Len(hands[q]) |-> hands[q][Len(hands[q]) + 1 - i]]]],
        [store EXCEPT ![g].hands =
           [q \in DOMAIN hands |->
              IF q = playerId THEN hands[q]
              ELSE SubSeq(buildDeck, 1, Len(hands[q]))]] }

\* the requester of a view: the player marked isYou
Requester(view) ==
  { view.players[i].id : i \in { k \in 1..Len(view.players) : view.players[k].isYou } }

\* C2: privacy.  The response to a state poll contains no card of a hand
\* other than the requester's own; it is the same for any two stores that
\* differ only in the contents of the other players' hands (others appear
\* only as id, name, seat, isHost, isYou, handSize); a requester who is not a
\* member receives no cards at all.
C2_Privacy ==
  last.op = "state" =>
    IF last.status # 200
    THEN last.view.hand = <<>> /\ last.view.players = <<>>
    ELSE LET view == last.view
             g    == view.gameId
         IN  /\ g \in DOMAIN games
             /\ Cardinality(Requester(view)) = 1
             /\ \A pid \in Requester(view) :
                  /\ pid \in PlayerIds(games[g])
                  /\ DOMAIN view = {"gameId", "status", "hostId", "players", "hand"}
                  /\ \A i \in 1..Len(view.players) :
                       /\ DOMAIN view.players[i] =
                            {"id", "name", "position", "isHost", "isYou", "handSize"}
                       /\ view.players[i].handSize \in 0..52
                  /\ Range(view.hand) \subseteq Range(HandOf(games[g], pid))
                  /\ \A q \in DOMAIN games[g].hands \ {pid} :
                       Range(view.hand) \cap Range(games[g].hands[q]) = {}
                  /\ \A other \in OtherHandsVaried(games, g, pid) :
                       stateResponse(other, g, pid) = last

\* a member who is not the host has polled a dealt session
C2_Witness ==
  /\ last.op = "state"
  /\ last.status = 200
  /\ last.view.status # "lobby"
  /\ Len(last.view.hand) = 13
  /\ \E i \in 1..Len(last.view.players) :
       last.view.players[i].isYou /\ ~last.view.players[i].isHost

\* C3: dealing happens at most once per session: a start on a session that
\* has been dealt is rejected, and the hands of the first deal never change.
C3_DealtOnce ==
  [][ \A g \in DOMAIN games :
        Dealt(games[g]) =>
          /\ games'[g].hands = games[g].hands
          /\ ~(last'.op = "start" /\ last'.status = 200
               /\ pending'["start"] = pending["start"] - 1
               /\ \E p \in PlayerIdInputs : HandleStart(g, p)) ]_vars

\* C4: under every interleaving of concurrent joins no two players of a
\* session hold the same seat, every seat is one of 0..3, and a session never
\* has more than 4 players.
C4_UniqueSeats ==
  \A g \in DOMAIN games :
    LET players == games[g].players
    IN  /\ Len(players) <= 4
        /\ \A i \in 1..Len(players) : players[i].position \in {0, 1, 2, 3}
        /\ \A i, j \in 1..Len(players) :
             i # j => players[i].position # players[j].position

\* a join has taken the last seat while another join is still suspended
C4_Witness ==
  /\ last.op = "join"
  /\ last.status = 200
  /\ pending["join"] > 0
  /\ last.out.gameId \in DOMAIN games
  /\ Len(games[last.out.gameId].players) = 4
  /\ last.out.position = 3

\* the session a join request with the raw code rawGameId resolves to
JoinTarget(rawGameId) == ToUpperCase(Trim(rawGameId))

\* the step answers a suspended start request with the inputs g, p
StartStep(g, p) ==
  /\ last'.op = "start"
  /\ pending'["start"] = pending["start"] - 1
  /\ HandleStart(g, p)

\* the step answers a suspended join request with the inputs g, n
JoinStep(g, n) ==
  /\ last'.op = "join"
  /\ pending'["join"] = pending["join"] - 1
  /\ HandleJoin(g, n)

\* C5: in every reachable state a lobby session has no hands and every
\* handSize is 0, a dealt session has exactly 4 players who hold exactly 13
\* cards each, no view shows a half-dealt session, and a start by the host
\* with a player count other than 4 fails with PlayerCountInvalid and leaves
\* the session in lobby.
C5_LobbyOrFullyDealt ==
  /\ [] ( /\ \A g \in DOMAIN games :
               IF games[g].status = "lobby"
               THEN DOMAIN games[g].hands = {}
               ELSE /\ Len(games[g].players) = 4
                    /\ \A p \in PlayerIds(games[g]) :
                         /\ p \in DOMAIN games[g].hands
                         /\ Len(games[g].hands[p]) = 13
          /\ (last.op = "state" /\ last.status = 200) =>
               /\ last.view.gameId \in DOMAIN games
               /\ last.view.status = games[last.view.gameId].status
               /\ \A i \in 1..Len(last.view.players) :
                    last.view.players[i].handSize =
                      IF last.view.status = "lobby" THEN 0 ELSE 13 )
  /\ [][ \A g \in DOMAIN games, p \in PlayerIdInputs :
           (/\ StartStep(g, p)
            /\ p = games[g].hostId
            /\ Len(games[g].players) # 4)
           => /\ last'.status = 400
              /\ last'.error = "Need exactly 4 players to start"
              /\ games' = games
              /\ games'[g].status = "lobby" ]_vars

\* the host of a lobby session short of players was refused while another
\* session is dealt
C5_Witness ==
  /\ last.op = "start"
  /\ last.status = 400
  /\ \E a, b \in DOMAIN games :
       /\ Dealt(games[a])
       /\ games[b].status = "lobby"
       /\ Len(games[b].players) < 4

\* C6: the creator of a session is at seat 0 and the k-th successful join is
\* assigned seat k: the occupied seats are 0..n-1 in order of arrival.
C6_SeatsInArrivalOrder ==
  /\ \A g \in DOMAIN games :
       /\ games[g].players[1].id = games[g].hostId
       /\ \A i \in 1..Len(games[g].players) : games[g].players[i].position = i - 1
  /\ (last.op = "create" /\ last.status = 200) =>
       /\ last.out.position = 0
       /\ games[last.out.gameId].players[1].id = last.out.playerId
  /\ (last.op = "join" /\ last.status = 200) =>
       LET players == games[last.out.gameId].players
       IN  /\ players[Len(players)].id = last.out.playerId
           /\ last.out.position = Len(players) - 1
           /\ last.out.position \in {1, 2, 3}

\* the third join of a session has been answered
C6_Witness ==
  /\ last.op = "join"
  /\ last.status = 200
  /\ last.out.position = 3
  /\ Len(games[last.out.gameId].players) = 4

\* C7: the host id of a session is the id of its creator and never changes,
\* exactly one player record is the host, and a start carrying any other
\* player id fails with NotHost and leaves status and hands unchanged.
C7_HostIsCreator ==
  /\ [] ( \A g \in DOMAIN games :
            /\ games[g].players[1].id = games[g].hostId
            /\ Cardinality({ i \in 1..Len(games[g].players) :
                               games[g].players[i].id = games[g].hostId }) = 1 )
  /\ [][ /\ \A g \in DOMAIN games :
              g \in DOMAIN games' /\ games'[g].hostId = games[g].hostId
         /\ \A g \in DOMAIN games' \ DOMAIN games :
              /\ last'.op = "create"
              /\ games'[g].hostId = last'.out.playerId
              /\ games'[g].players[1].id = last'.out.playerId
         /\ \A g \in DOMAIN games, p \in PlayerIdInputs :
              (StartStep(g, p) /\ p # games[g].hostId)
              => /\ last'.status = 403
                 /\ last'.error = "Only the host can start the game"
                 /\ games' = games ]_vars

\* a start on a session of four was refused for not coming from the host
C7_Witness ==
  /\ last.op = "start"
  /\ last.status = 403
  /\ \E g \in DOMAIN games : Len(games[g].players) = 4

\* the player list of a dealt session never changes
DealtPlayersFixed ==
  \A g \in DOMAIN games :
    Dealt(games[g]) => games'[g].players = games[g].players

\* C8 as stated: once a session has four players every further join fails,
\* with SessionFull while the session is in lobby and with
\* SessionAlreadyStarted once it has been dealt; the player list of a dealt
\* session never changes.
C8_FullSessionRejectsJoin ==
  [][ /\ DealtPlayersFixed
      /\ \A g \in GameIdInputs, n \in NameInputs :
           (/\ JoinStep(g, n)
            /\ JoinTarget(g) \in DOMAIN games
            /\ Len(games[JoinTarget(g)].players) = 4)
           => /\ last'.status = 400
              /\ games' = games
              /\ last'.error = IF games[JoinTarget(g)].status = "lobby"
                               THEN "Game is full"
                               ELSE "Game already started" ]_vars

\* C8 amended: once a session has four players every further join fails:
\* with SessionAlreadyStarted once it has been dealt; while it is in lobby
\* with SessionFull when the name is non-empty after trimming and with
\* InvalidName when it is empty or whitespace-only; the player list of a
\* dealt session never changes.
C8_FullSessionRejectsJoinAmended ==
  [][ /\ DealtPlayersFixed
      /\ \A g \in GameIdInputs, n \in NameInputs :
           (/\ JoinStep(g, n)
            /\ JoinTarget(g) \in DOMAIN games
            /\ Len(games[JoinTarget(g)].players) = 4)
           => /\ last'.status = 400
              /\ games' = games
              /\ last'.error =
                   IF games[JoinTarget(g)].status # "lobby" THEN "Game already started"
                   ELSE IF Trim(n) = <<>> THEN "Name is required"
                   ELSE "Game is full" ]_vars

\* a fifth join on a lobby session of four was refused as full
C8_Witness ==
  /\ last.op = "join"
  /\ last.status = 400
  /\ last.error = "Game is full"
  /\ \E g \in DOMAIN games : Len(games[g].players) = 4 /\ games[g].status = "lobby"

AllPlayerIds(store) == UNION { PlayerIds(store[g]) : g \in DOMAIN store }

\* C9: join is all-or-nothing: a join that fails (NotFound,
\* SessionAlreadyStarted, InvalidName, SessionFull) leaves every session
\* unchanged, and a join that succeeds adds exactly one player with a fresh
\* id and a seat to its session and changes nothing else.
C9_JoinAllOrNothing ==
  [][ \A g \in GameIdInputs, n \in NameInputs :
        JoinStep(g, n) =>
          IF last'.status # 200
          THEN /\ games' = games
               /\ last'.error \in {"Game not found", "Game already started",
                                   "Name is required", "Game is full"}
               /\ (last'.error = "Game not found") = (JoinTarget(g) \notin DOMAIN games)
               /\ (JoinTarget(g) \in DOMAIN games /\ Trim(n) = <<>>)
                    => last'.error \in {"Game already started", "Name is required"}
          ELSE LET code == last'.out.gameId
                   new  == games'[code].players[Len(games'[code].players)]
               IN  /\ code = JoinTarget(g)
                   /\ code \in DOMAIN games
                   /\ Trim(n) # <<>>
                   /\ DOMAIN games' = DOMAIN games
                   /\ \A other \in DOMAIN games \ {code} : games'[other] = games[other]
                   /\ games'[code].players = Append(games[code].players, new)
                   /\ games'[code].hands = games[code].hands
                   /\ games'[code].status = games[code].status
                   /\ games'[code].hostId = games[code].hostId
                   /\ games'[code].id = games[code].id
                   /\ new.id = last'.out.playerId
                   /\ new.id \notin AllPlayerIds(games)
                   /\ new.name = Trim(n)
                   /\ new.position = last'.out.position
                   /\ new.position \in {0, 1, 2, 3}
                   /\ new.position \notin existingPositions(games[code]) ]_vars

\* a join has succeeded on one session while another session exists
C9_Witness ==
  /\ last.op = "join"
  /\ last.status = 200
  /\ Cardinality(DOMAIN games) = 2

\* C10: when the host starts a session of exactly 4 players the start
\* succeeds, and from then on every member's view reports handSize 13 for
\* each of the four players and an own hand of 13 cards; the handSize of the
\* requester's own record equals the length of the projected hand, and both
\* are 0 before the deal.
C10_DealtViewSizes ==
  /\ [] ( (last.op = "state" /\ last.status = 200) =>
            LET view == last.view
            IN  /\ \A i \in 1..Len(view.players) :
                     view.players[i].isYou => view.players[i].handSize = Len(view.hand)
                /\ \E i \in 1..Len(view.players) : view.players[i].isYou
                /\ ~Dealt(games[view.gameId]) => Len(view.hand) = 0
                /\ Dealt(games[view.gameId]) =>
                     /\ Len(view.players) = 4
                     /\ \A i \in 1..4 : view.players[i].handSize = 13
                     /\ Len(view.hand) = 13 )
  /\ [][ \A g \in DOMAIN games, p \in PlayerIdInputs :
           (/\ StartStep(g, p)
            /\ p = games[g].hostId
            /\ Len(games[g].players) = 4)
           => /\ last'.status = 200
              /\ Dealt(games'[g]) ]_vars

\* a member has polled a dealt session and sees four hands of 13
C10_Witness ==
  /\ last.op = "state"
  /\ last.status = 200
  /\ Dealt(games[last.view.gameId])
  /\ Len(last.view.hand) = 13
  /\ \A i \in 1..4 : last.view.players[i].handSize = 13

(***************************************************************************)
(* Session status, as the server stores it and as the client words it.     *)
(***************************************************************************)
formatStatus_Dealt(status) ==
  IF status = "dealt" THEN "Cards dealt"
  ELSE IF status = "lobby" THEN "Lobby"
  ELSE "Idle"

\* formatStatus of the client: the wording of a view's status
formatStatus(status) ==
  IF status = "started" THEN "Cards dealt"
  ELSE IF status = "lobby" THEN "Lobby"
  ELSE "Idle"

MaxHandLen == 3

\* the sequences of n distinct elements of S
RECURSIVE DistinctSeqs(_, _)
DistinctSeqs(S, n) ==
  IF n = 0 THEN { <<>> }
  ELSE { Append(q, c) : q \in DistinctSeqs(S, n - 1), c \in S } \
       { q \in { Append(r, c) : r \in DistinctSeqs(S, n - 1), c \in S } :
           q[n] \in Range(SubSeq(q, 1, n - 1)) }

\* cards of three suits, with the two-character rank
PoolCards ==
  { <<"3","H">>, <<"A","S">>, <<"1","0","D">>, <<"K","S">>, <<"1","0","S">>,
    <<"2","H">> }

\* the hand of the sorted-hand scenario: ["3H", "AS", "10D", "KS"]
ScenarioHand == << <<"3","H">>, <<"A","S">>, <<"1","0","D">>, <<"K","S">> >>

\* game.hands[playerId]: every hand of at most two cards of the deck in
\* either order, the longer hands over PoolCards, the scenario hand and the
\* hands a deal hands out
HandInputs ==
  UNION { DistinctSeqs(Range(buildDeck), n) : n \in 0..2 }
    \cup UNION { DistinctSeqs(PoolCards, n) : n \in 3..MaxHandLen }
    \cup { ScenarioHand }
    \cup { HandSlice(shuffledDeck[seed], idx) : seed \in Seeds, idx \in 0..3 }

\* a game whose only player holds `hand`
ProbeGame(hand) ==
  [createGame(CodeOf(<<0,0,0,0,0>>), <<"A","n","n">>, 1)
     EXCEPT !.hands = (1 :> hand), !.status = "started"]

\* parseCard of the client: the rank, and the symbol and colour of the suit
\* (the symbols are the glyphs of the four suits, written here by name)
parseCard(card) ==
  LET suit == card[Len(card)]
      rank == SubSeq(card, 1, Len(card) - 1)
      map  == [S |-> [symbol |-> "spade",   color |-> "#0d1b2c"],
               C |-> [symbol |-> "club",    color |-> "#0d1b2c"],
               H |-> [symbol |-> "heart",   color |-> "#c03434"],
               D |-> [symbol |-> "diamond", color |-> "#c03434"]]
      suitInfo == IF suit \in DOMAIN map THEN map[suit]
                  ELSE [symbol |-> suit, color |-> "#0d1b2c"]
  IN  [rank |-> rank, suitSymbol |-> suitInfo.symbol, color |-> suitInfo.color]

\* the rank and suit pairs buildDeck encodes, the suit as a one-letter string
CardInputs ==
  { << ranks[i], <<suits[j]>> >> : i \in 1..Len(ranks), j \in 1..Len(suits) }

ProbeInit ==
  /\ games = << >>
  /\ nextId = 1
  /\ pending = [op \in Ops |-> 0]
  /\ last = Fail("none", 0, "")
  /\ gen = NoGen
  /\ client = NoClient
  /\ calls = <<>>
  /\ probe \in { [op |-> "project", input |-> hand, output |-> <<>>, done |-> FALSE] :
                   hand \in HandInputs }
               \cup
               { [op |-> "card", input |-> pair, output |-> <<>>, done |-> FALSE] :
                   pair \in CardInputs }

\* buildDeck encodes the pair: `${rank}${suit}`
ProbeEncode ==
  /\ probe.op = "card"
  /\ probe.output = <<>>
  /\ probe' = [probe EXCEPT !.output = << EncodeCard(probe.input[1], probe.input[2][1]) >>]
  /\ UNCHANGED <<games, nextId, pending, last, gen, client, calls>>

\* the server (splitCard) and the client (parseCard) decode the card
ProbeDecode ==
  /\ probe.op = "card"
  /\ Len(probe.output) = 1
  /\ LET card == probe.output[1]
     IN  probe' = [probe EXCEPT
                     !.output = << card,
                                   splitCard(card)[1], << splitCard(card)[2] >>,
                                   parseCard(card).rank, << parseCard(card).suitSymbol >> >>,
                     !.done = TRUE]
  /\ UNCHANGED <<games, nextId, pending, last, gen, client, calls>>

\* projectGameForPlayer(game, playerId).hand for the hand under test
ProbeProject ==
  /\ probe.op = "project"
  /\ ~probe.done
  /\ probe' = [probe EXCEPT !.output = projectGameForPlayer(ProbeGame(probe.input), 1).hand,
                            !.done = TRUE]
  /\ UNCHANGED <<games, nextId, pending, last, gen, client, calls>>

ProbeNext ==
  \/ ProbeProject
  \/ ProbeEncode
  \/ ProbeDecode

ProbeSpec == ProbeInit /\ [][ProbeNext]_vars

\* the order of the claim: suits S < H < D < C, then ranks A < K < ... < 2
C12_SuitsInOrder == <<"S", "H", "D", "C">>

C12_RanksInOrder ==
  << <<"A">>, <<"K">>, <<"Q">>, <<"J">>, <<"1","0">>, <<"9">>, <<"8">>, <<"7">>,
     <<"6">>, <<"5">>, <<"4">>, <<"3">>, <<"2">> >>

\* the place of a card in that order, 0..51
C12_Key(card) ==
  LET suit == card[Len(card)]
      rank == SubSeq(card, 1, Len(card) - 1)
  IN  13 * ((CHOOSE i \in 1..4 : C12_SuitsInOrder[i] = suit) - 1)
        + (CHOOSE j \in 1..13 : C12_RanksInOrder[j] = rank) - 1

C12_Count(seq, x) == Cardinality({ i \in 1..Len(seq) : seq[i] = x })

C12_Reverse(seq) == [i \in 1..Len(seq) |-> seq[Len(seq) + 1 - i]]

\* C12: for every hand, the projected hand is a permutation of the stored
\* hand (same cards, same length) ordered by suit S < H < D < C and within a
\* suit by rank A < K < Q < J < 10 < 9 < ... < 2; the comparator is a strict
\* total order on the cards, so the projected order is the same whatever the
\* order the cards were dealt in.
C12_ProjectedHandOrdered ==
  (probe.op = "project" /\ probe.done) =>
    LET hand  == probe.input
        shown == probe.output
        cards == Range(hand)
    IN  /\ Len(shown) = Len(hand)
        /\ \A c \in cards \cup Range(shown) : C12_Count(shown, c) = C12_Count(hand, c)
        /\ \A i, j \in 1..Len(shown) : i < j => C12_Key(shown[i]) < C12_Key(shown[j])
        /\ \A a, b \in cards :
             /\ (cardComparator(a, b) < 0) <=> (C12_Key(a) < C12_Key(b))
             /\ (cardComparator(a, b) = 0) <=> (a = b)
             /\ (cardComparator(a, b) < 0) <=> (cardComparator(b, a) > 0)
        /\ \A a, b, c \in cards :
             (cardComparator(a, b) < 0 /\ cardComparator(b, c) < 0)
               => cardComparator(a, c) < 0
        /\ projectGameForPlayer(ProbeGame(C12_Reverse(hand)), 1).hand = shown

\* a dealt hand of 13 cards that was stored out of order has been projected
C12_Witness ==
  /\ probe.op = "project"
  /\ probe.done
  /\ Len(probe.input) = 13
  /\ probe.output # probe.input
  /\ \E i \in 1..12 : cardComparator(probe.input[i], probe.input[i + 1]) > 0

\* C13 (as stated): a requester whose stored hand is ["3H", "AS", "10D",
\* "KS"] receives a view whose hand is exactly ["KS", "AS", "10D", "3H"].
C13_ScenarioHandProjected ==
  (probe.op = "project" /\ probe.done /\ probe.input = ScenarioHand) =>
    probe.output = << <<"K","S">>, <<"A","S">>, <<"1","0","D">>, <<"3","H">> >>

\* C13 (amended): a requester whose stored hand is ["3H", "AS", "10D", "KS"]
\* receives a view whose hand is exactly ["AS", "KS", "3H", "10D"], in that
\* order: spades before hearts before diamonds, the ace before the king.
C13_ScenarioHandProjectedAmended ==
  (probe.op = "project" /\ probe.done /\ probe.input = ScenarioHand) =>
    probe.output = << <<"A","S">>, <<"K","S">>, <<"3","H">>, <<"1","0","D">> >>

\* the scenario hand has been projected
C13_Witness ==
  /\ probe.op = "project"
  /\ probe.done
  /\ probe.input = << <<"3","H">>, <<"A","S">>, <<"1","0","D">>, <<"K","S">> >>
  /\ Len(probe.output) = 4

\* the step answers a state poll with the inputs g, p (the tests before
\* HandleState follow from it; they spare its evaluation for most g, p)
StateStep(g, p) ==
  /\ last'.op = "state"
  /\ pending' = pending
  /\ (g \in DOMAIN games) <=> (last'.status # 404)
  /\ last'.status = 403 => ~IsMember(games[g], p)
  /\ last'.status = 200 => (last'.view.gameId = g /\ p \in Requester(last'.view))
  /\ HandleState(g, p)

\* C14: the lookup of a session by code is case-insensitive for join, start
\* and state alike: a code that differs from the code of an existing session
\* only in letter case resolves to that session and never yields NotFound.
C14_LookupCaseInsensitive ==
  [][ \A g \in GameIdInputs \cup LookupInputs :
        (/\ ToUpperCase(g) \in DOMAIN games
         /\ g # ToUpperCase(g))
        => /\ \A n \in NameInputs :
                JoinStep(g, n) => last'.status # 404
           /\ \A p \in PlayerIdInputs :
                StartStep(g, p) => last'.status # 404
           /\ \A p \in PlayerIdInputs :
                StateStep(g, p) =>
                  /\ last'.status # 404
                  /\ last'.status = 200 => last'.view.gameId = ToUpperCase(g) ]_vars

\* the glyph the client shows for a suit letter
C15_SymbolOf(suit) ==
  CASE suit = "S" -> "spade" [] suit = "H" -> "heart"
    [] suit = "D" -> "diamond" [] suit = "C" -> "club"

\* C15: the card encoding round-trips for all 52 rank and suit pairs,
\* including the two-character rank "10": decoding the encoded card by
\* removing the trailing suit letter yields the original rank and suit, on the
\* server and in the client; the 52 encodings are pairwise distinct.
C15_CardEncodingRoundTrips ==
  (probe.op = "card" /\ Len(probe.output) >= 1) =>
    LET rank == probe.input[1]
        suit == probe.input[2][1]
        card == probe.output[1]
    IN  /\ Cardinality(CardInputs) = 52
        /\ \A other \in CardInputs :
             other # probe.input => EncodeCard(other[1], other[2][1]) # card
        /\ card \in Range(buildDeck)
        /\ probe.done =>
             /\ probe.output[2] = rank
             /\ probe.output[3] = <<suit>>
             /\ probe.output[4] = rank
             /\ probe.output[5] = << C15_SymbolOf(suit) >>
             /\ \A s \in Range(suits) :
                  C15_SymbolOf(s) = C15_SymbolOf(suit) => s = suit

\* the ten of some suit has been encoded and decoded again
C15_Witness ==
  /\ probe.op = "card"
  /\ probe.done
  /\ probe.input[1] = <<"1", "0">>
  /\ Len(probe.output[1]) = 3
  /\ probe.output[2] = <<"1", "0">>

\* the step answers a suspended create request with the input n
CreateStep(n) ==
  /\ last'.op = "create"
  /\ pending'["create"] = pending["create"] - 1
  /\ HandleCreate(n)

\* C16: a successful create returns a code that was not in use and registers
\* under it a new session in lobby with empty hands whose only player is the
\* creator, at seat 0 and as host; every session that existed before is
\* unchanged, and no create, successful or not, replaces or changes an
\* existing registry entry.
C16_CreateAddsFreshSession ==
  [][ \A n \in NameInputs :
        CreateStep(n) =>
          /\ \A g \in DOMAIN games : g \in DOMAIN games' /\ games'[g] = games[g]
          /\ last'.status # 200 => games' = games
          /\ last'.status = 200 =>
               LET code == last'.out.gameId
                   id   == last'.out.playerId
               IN  /\ code \notin DOMAIN games
                   /\ DOMAIN games' = DOMAIN games \cup {code}
                   /\ id \notin AllPlayerIds(games)
                   /\ last'.out.position = 0
                   /\ games'[code] =
                        [id      |-> code,
                         hostId  |-> id,
                         status  |-> "lobby",
                         players |-> << [id |-> id, name |-> Trim(n), position |-> 0] >>,
                         hands   |-> << >>] ]_vars

\* a create has just succeeded next to a session that already had members
C16_Witness ==
  /\ last.op = "create"
  /\ last.status = 200
  /\ Cardinality(DOMAIN games) = 2
  /\ Len(games[last.out.gameId].players) = 1
  /\ \E g \in DOMAIN games : g # last.out.gameId /\ Len(games[g].players) >= 2

(***************************************************************************)
(* createGame with the recursion of generateCode taken one call at a time. *)
(* The calls are synchronous: nothing else runs while gen.state is         *)
(* "drawing".                                                              *)
(***************************************************************************)
\* nested calls of generateCode the call stack holds before the engine
\* throws RangeError (maximum call stack size exceeded)
StackLimit == 3

\* a create request arrives and suspends in readBody
GenAccept ==
  /\ gen.state # "drawing"
  /\ Accept("create")
  /\ UNCHANGED aux

\* the create handler resumes: the name check, then createGame calls
\* generateCode
GenBegin(rawName) ==
  /\ gen.state # "drawing"
  /\ pending["create"] > 0
  /\ pending' = [pending EXCEPT !["create"] = @ - 1]
  /\ LET name == Trim(rawName)
     IN  IF name = <<>>
         THEN /\ last' = Fail("create", 400, "Name is required")
              /\ gen' = NoGen
         ELSE /\ nextId <= MaxIds
              /\ gen' = [state |-> "drawing", name |-> name, depth |-> 1]
              /\ last' = last
  /\ UNCHANGED <<games, nextId, probe, client, calls>>

\* one call of generateCode: it draws a code; on a collision it calls itself,
\* which the stack allows StackLimit calls deep; otherwise the code is returned
\* through every frame and createGame stores the game
GenDraw(draws) ==
  /\ gen.state = "drawing"
  /\ LET code == CodeOf(draws)
     IN  IF CodeTaken(code)
         THEN IF gen.depth < StackLimit
              THEN /\ gen' = [gen EXCEPT !.depth = @ + 1]
                   /\ UNCHANGED <<games, nextId, last>>
              ELSE \* RangeError, caught by the catch of the server
                   /\ gen' = [state |-> "stack exhausted", name |-> <<>>, depth |-> 0]
                   /\ last' = Fail("create", 500, "Unexpected server error")
                   /\ UNCHANGED <<games, nextId>>
         ELSE LET game == createGame(code, gen.name, nextId)
              IN  /\ games' = MapSet(games, code, game)
                  /\ nextId' = nextId + 1
                  /\ gen' = [state |-> "returned", name |-> <<>>, depth |-> 0]
                  /\ last' = Reply("create", 200, "",
                                   [gameId   |-> game.id,
                                    playerId |-> game.players[1].id,
                                    position |-> game.players[1].position],
                                   NoView)
  /\ UNCHANGED <<pending, probe, client, calls>>

GenNext ==
  \/ GenAccept
  \/ \E rawName \in NameInputs : GenBegin(rawName)
  \/ \E draws \in CodeDraws : GenDraw(draws)

GenSpec == Init /\ [][GenNext]_vars

\* C17: every create request terminates by the retry's own bound: the
\* collision retry is a loop with a retry cap, not unbounded recursion, so
\* createGame returns to its handler even when the generated codes collide
\* again and again, up to a registry in which every code is in use; it never
\* ends by exhausting the call stack.
C17_CreateRetryBounded ==
  gen.state # "stack exhausted"

\* C18: a state poll is a pure read: it answers with the view, with NotFound
\* or with PlayerNotInSession and leaves the registry unchanged, the stored
\* order of the cards of every hand included (the projected hand is a sorted
\* copy); the same poll repeated right away returns the same answer.
\* (A step that sends a state response and resumes no suspended handler is a
\* state poll; a view names its session and its requester.)
C18_StatePollPureRead ==
  [][ (last'.op = "state" /\ pending' = pending) =>
        /\ games' = games
        /\ nextId' = nextId
        /\ last'.status \in {200, 404, 403}
        /\ last'.status = 200 =>
             LET g == last'.view.gameId
             IN  /\ g \in DOMAIN games
                 /\ Cardinality(Requester(last'.view)) = 1
                 /\ \A p \in Requester(last'.view) :
                      /\ IsMember(games[g], p)
                      /\ Range(last'.view.hand) = Range(HandOf(games[g], p))
                      /\ stateResponse(games', g, p) = last'
        /\ last'.status # 200 =>
             /\ last'.view = NoView
             /\ \A g \in LookupInputs, p \in PlayerIdInputs :
                  \* the polls that are answered this way: an unknown code
                  \* for 404, a known code and a non-member for 403
                  (/\ (g \in DOMAIN games) <=> (last'.status # 404)
                   /\ last'.status = 403 => ~IsMember(games[g], p))
                  => stateResponse(games', g, p) = last' ]_vars

\* a member has polled a dealt session whose stored hand is not in sorted
\* order: the view shows it sorted, the store keeps the dealt order
C18_Witness ==
  /\ last.op = "state"
  /\ last.status = 200
  /\ \E i \in 1..Len(last.view.players) :
       /\ last.view.players[i].isYou
       /\ Len(last.view.hand) = 13
       /\ games[last.view.gameId].hands[last.view.players[i].id] # last.view.hand

(***************************************************************************)
(* The page of one browser (the client script) composed with the server.   *)
(* The page creates games, polls, starts and resets; the other players     *)
(* join through the API.  A fetch is a call: "sent" until the server has   *)
(* handled it, then "replied" until the page runs the continuation of the  *)
(* async function that awaits it.                                          *)
(***************************************************************************)
\* fetches of the page that may be outstanding at the same time
MaxCalls == 2

\* a session left in localStorage by an earlier run of the server, whose
\* registry is gone: a code and a player id the present server never issued
StaleSession == [gameId |-> CodeOf(<<0, 0, 0, 0, 1>>), playerId |-> MaxIds + 1]

\* the name typed into the forms
TypedName == <<" ", "A", "n", "n", " ">>

Call(fn, gameId, playerId) ==
  [fn |-> fn, gameId |-> gameId, playerId |-> playerId, stage |-> "sent",
   resp |-> Fail("none", 0, "")]

RemoveAt(seq, i) == SubSeq(seq, 1, i - 1) \o SubSeq(seq, i + 1, Len(seq))

\* updateStartButton(game): the value it assigns to els.startGame.disabled;
\* without a game (NoView) there are no players
updateStartButton(game) ==
  LET isHost == \E i \in 1..Len(game.players) :
                  game.players[i].isHost /\ game.players[i].isYou
      ready  == Len(game.players) = 4 /\ game.status = "lobby"
  IN  ~(isHost /\ ready)

\* pollOnce up to its fetch: the call it issues, none without a session
pollOnce(session) ==
  IF session = NoSession THEN <<>>
  ELSE << Call("poll", session.gameId, session.playerId) >>

\* the page after construction: loadSession found nothing, or it found a stale
\* session and initialize() began polling for it
ClientInit ==
  /\ games = << >>
  /\ nextId = 1
  /\ pending = [op \in Ops |-> 0]
  /\ last = Fail("none", 0, "")
  /\ probe = NoProbe
  /\ gen = NoGen
  /\ \/ /\ client = NoClient
        /\ calls = <<>>
     \/ /\ client = [NoClient EXCEPT !.session = StaleSession, !.pollId = TRUE]
        /\ calls = pollOnce(StaleSession)

\* onCreate up to its fetch
OnCreate ==
  /\ Len(calls) < MaxCalls
  /\ Trim(TypedName) # <<>>
  /\ Accept("create")
  /\ calls' = Append(calls, Call("create", <<>>, 0))
  /\ UNCHANGED <<probe, gen, client>>

\* the server handles the create request of call i
ServeCreate(i) ==
  /\ calls[i].fn = "create"
  /\ calls[i].stage = "sent"
  /\ HandleCreate(Trim(TypedName))
  /\ calls' = [calls EXCEPT ![i].stage = "replied", ![i].resp = last']
  /\ UNCHANGED <<probe, gen, client>>

\* onCreate after its fetch: saveSession and beginPolling, or the message
ReturnCreate(i) ==
  /\ calls[i].fn = "create"
  /\ calls[i].stage = "replied"
  /\ IF calls[i].resp.status = 200
     THEN LET session == [gameId   |-> calls[i].resp.out.gameId,
                          playerId |-> calls[i].resp.out.playerId]
          IN  /\ client' = [client EXCEPT !.session = session,
                                          !.startDisabled = updateStartButton(NoView),
                                          !.pollId = TRUE]
              /\ calls' = RemoveAt(calls, i) \o pollOnce(session)
     ELSE /\ client' = client
          /\ calls' = RemoveAt(calls, i)
  /\ UNCHANGED <<games, nextId, pending, last, probe, gen>>

\* clearSession, the handler of the reset button
ClearSession ==
  /\ client' = [session |-> NoSession, lastGame |-> NoView, pollId |-> FALSE,
                startDisabled |-> updateStartButton(NoView)]
  /\ UNCHANGED <<games, nextId, pending, last, probe, gen, calls>>

\* the interval timer of beginPolling fires: pollOnce up to its fetch
TimerPoll ==
  /\ client.pollId
  /\ Len(calls) < MaxCalls
  /\ calls' = calls \o pollOnce(client.session)
  /\ UNCHANGED <<games, nextId, pending, last, probe, gen, client>>

\* the server handles the state request of call i
ServeState(i) ==
  /\ calls[i].fn = "poll"
  /\ calls[i].stage = "sent"
  /\ HandleState(calls[i].gameId, calls[i].playerId)
  /\ calls' = [calls EXCEPT ![i].stage = "replied", ![i].resp = last']
  /\ UNCHANGED <<probe, gen, client>>

\* pollOnce after its fetch: 404 stops the timer, a view is stored and
\* rendered, any other answer only sets the message
ReturnPoll(i) ==
  /\ calls[i].fn = "poll"
  /\ calls[i].stage = "replied"
  /\ client' =
       IF calls[i].resp.status = 404
       THEN [client EXCEPT !.pollId = FALSE]
       ELSE IF calls[i].resp.status = 200
       THEN [client EXCEPT !.lastGame = calls[i].resp.view,
                           !.startDisabled = updateStartButton(calls[i].resp.view)]
       ELSE client
  /\ calls' = RemoveAt(calls, i)
  /\ UNCHANGED <<games, nextId, pending, last, probe, gen>>

\* a click on the start button, which the browser delivers only while the
\* button is not disabled: onStart up to its fetch
OnStart ==
  /\ ~client.startDisabled
  /\ client.session # NoSession
  /\ Len(calls) < MaxCalls
  /\ Accept("start")
  /\ calls' = Append(calls, Call("start", client.session.gameId, client.session.playerId))
  /\ UNCHANGED <<probe, gen, client>>

\* the server handles the start request of call i
ServeStart(i) ==
  /\ calls[i].fn = "start"
  /\ calls[i].stage = "sent"
  /\ HandleStart(calls[i].gameId, calls[i].playerId)
  /\ calls' = [calls EXCEPT ![i].stage = "replied", ![i].resp = last']
  /\ UNCHANGED <<probe, gen, client>>

\* onStart after its fetch: on success `await pollOnce()`
ReturnStart(i) ==
  /\ calls[i].fn = "start"
  /\ calls[i].stage = "replied"
  /\ calls' = IF calls[i].resp.status = 200
              THEN RemoveAt(calls, i) \o pollOnce(client.session)
              ELSE RemoveAt(calls, i)
  /\ UNCHANGED <<games, nextId, pending, last, probe, gen, client>>

\* another player sends a join request
OtherJoinArrives ==
  /\ Accept("join")
  /\ UNCHANGED aux

\* the server handles the join request of another player
OtherJoinServed ==
  /\ \E gameId \in GenCodes : HandleJoin(gameId, TypedName)
  /\ UNCHANGED aux

ClientNext ==
  \/ OnCreate
  \/ \E i \in 1..Len(calls) : ServeCreate(i)
  \/ \E i \in 1..Len(calls) : ReturnCreate(i)
  \/ ClearSession
  \/ TimerPoll
  \/ \E i \in 1..Len(calls) : ServeState(i)
  \/ \E i \in 1..Len(calls) : ReturnPoll(i)
  \/ OnStart
  \/ \E i \in 1..Len(calls) : ServeStart(i)
  \/ \E i \in 1..Len(calls) : ReturnStart(i)
  \/ OtherJoinArrives
  \/ OtherJoinServed

ClientSpec == ClientInit /\ [][ClientNext]_vars

\* C19: with the host acting only through the start control of the page, a
\* session is dealt at most once: the control is enabled only while the last
\* view the page received shows the requester as host of exactly 4 players in
\* lobby, and a click made after the first start request was sent (while that
\* request or the poll after it is in flight) never makes the server deal a
\* session that is already dealt.
C19_StartControlDealsOnce ==
  /\ [] ( ~client.startDisabled =>
            /\ client.lastGame.status = "lobby"
            /\ Len(client.lastGame.players) = 4
            /\ \E i \in 1..4 : /\ client.lastGame.players[i].isYou
                               /\ client.lastGame.players[i].isHost )
  /\ [][ \A i \in 1..Len(calls) :
           (/\ last'.op = "start"
            /\ last'.status = 200
            /\ ServeStart(i))
           => ~Dealt(games[calls[i].gameId]) ]_vars

\* C20: in the page, the response to a poll issued for an earlier session
\* never affects the present one: it does not set lastGame or render the old
\* game, and a 404 for the old game does not stop the timer of the new
\* session; while the page holds no session, lastGame stays null and no timer
\* is active.
C20_StalePollIgnored ==
  /\ [] ( client.session = NoSession =>
            /\ client.lastGame = NoView
            /\ ~client.pollId )
  /\ [][ \A i \in 1..Len(calls) :
           (/\ calls[i].fn = "poll"
            /\ [gameId |-> calls[i].gameId, playerId |-> calls[i].playerId]
                 # client.session
            /\ ReturnPoll(i))
           => client' = client ]_vars

====
